---- MODULE Spec2Model ----
(***************************************************************************)
(* Model of server/scripts/gait_model_stub.py: the score generator that    *)
(* reads its command line, derives two clamped duration estimates and      *)
(* prints one JSON object.                                                  *)
(*                                                                          *)
(* Python values are modelled as follows.                                   *)
(*   str    [cls |-> "str", s] with s a sequence of one-character strings   *)
(*   None   [cls |-> "None"]                                                *)
(*   float  an IEEE-754 binary64 value: [cls |-> "nan"], [cls |-> "inf",    *)
(*          neg], or [cls |-> "fin", neg, m, e] standing for m * 2^e with   *)
(*          m an unbounded natural below 2^53, at least 2^52 unless the     *)
(*          value is zero or subnormal                                      *)
(*   int    [cls |-> "int", v] with v a TLA+ integer                        *)
(* Unbounded naturals (the 106-bit products of float multiplication) are   *)
(* little-endian sequences of limbs in base 2^15 without leading zeros.     *)
(***************************************************************************)
EXTENDS Integers, Sequences, FiniteSets, TLC

\* Python values carry their class in the field cls
None == [cls |-> "None"]
PyStr(s) == [cls |-> "str", s |-> s]
PyInt(n) == [cls |-> "int", v |-> n]
PyBool(b) == [cls |-> "bool", v |-> b]
\* a local name not yet bound
Unbound == [cls |-> "unbound"]
\* the outcome of an expression that raises
Raise(e) == [cls |-> "raise", exc |-> e]
Raised(v) == v.cls = "raise"
IsFloat(v) == v.cls \in {"fin", "inf", "nan"}

-----------------------------------------------------------------------------
(* Unbounded naturals *)

LimbBits == 15
Base == 2^LimbBits

RECURSIVE BNorm(_)
BNorm(x) ==
    IF x = <<>> THEN <<>>
    ELSE IF x[Len(x)] = 0 THEN BNorm(SubSeq(x, 1, Len(x) - 1))
    ELSE x

RECURSIVE BFromInt(_)
BFromInt(n) ==
    IF n = 0 THEN <<>> ELSE <<n % Base>> \o BFromInt(n \div Base)

RECURSIVE BToInt(_)
BToInt(x) ==
    IF x = <<>> THEN 0 ELSE Head(x) + Base * BToInt(Tail(x))

BIsZero(x) == x = <<>>

\* x * k + c for a limb-sized k and c
RECURSIVE BMulSmallC(_, _, _)
BMulSmallC(x, k, c) ==
    IF x = <<>> THEN BFromInt(c)
    ELSE LET t == Head(x) * k + c
         IN  <<t % Base>> \o BMulSmallC(Tail(x), k, t \div Base)

BMulSmall(x, k) == BNorm(BMulSmallC(x, k, 0))

RECURSIVE BAddC(_, _, _)
BAddC(x, y, c) ==
    IF x = <<>> /\ y = <<>> THEN BFromInt(c)
    ELSE LET a == IF x = <<>> THEN 0 ELSE Head(x)
             b == IF y = <<>> THEN 0 ELSE Head(y)
             t == a + b + c
         IN  <<t % Base>> \o BAddC(IF x = <<>> THEN <<>> ELSE Tail(x),
                                   IF y = <<>> THEN <<>> ELSE Tail(y),
                                   t \div Base)

BAdd(x, y) == BNorm(BAddC(x, y, 0))

RECURSIVE BMul(_, _)
BMul(x, y) ==
    IF y = <<>> \/ x = <<>> THEN <<>>
    ELSE BAdd(BMulSmall(x, Head(y)),
              LET r == BMul(x, Tail(y)) IN IF r = <<>> THEN <<>> ELSE <<0>> \o r)

\* -1, 0 or 1 as x is less than, equal to or greater than y
RECURSIVE BCmpEq(_, _)
BCmpEq(x, y) ==
    IF x = <<>> THEN 0
    ELSE LET n == Len(x)
         IN  IF x[n] < y[n] THEN -1
             ELSE IF x[n] > y[n] THEN 1
             ELSE BCmpEq(SubSeq(x, 1, n - 1), SubSeq(y, 1, n - 1))

BCmp(x, y) ==
    IF Len(x) < Len(y) THEN -1
    ELSE IF Len(x) > Len(y) THEN 1
    ELSE BCmpEq(x, y)

RECURSIVE SmallBitLen(_)
SmallBitLen(n) == IF n = 0 THEN 0 ELSE 1 + SmallBitLen(n \div 2)

BBitLen(x) ==
    IF x = <<>> THEN 0
    ELSE LimbBits * (Len(x) - 1) + SmallBitLen(x[Len(x)])

BBit(x, i) ==
    LET j == (i \div LimbBits) + 1
    IN  IF j > Len(x) THEN 0 ELSE (x[j] \div 2^(i % LimbBits)) % 2

\* x * 2^s
BShl(x, s) ==
    IF x = <<>> THEN <<>>
    ELSE [i \in 1..(s \div LimbBits) |-> 0] \o BMulSmall(x, 2^(s % LimbBits))

\* x \div k and x % k for a limb-sized k, most significant limb first
RECURSIVE BDivSmallR(_, _, _)
BDivSmallR(x, k, r) ==
    IF x = <<>> THEN [q |-> <<>>, r |-> r]
    ELSE LET n == Len(x)
             t == r * Base + x[n]
             rest == BDivSmallR(SubSeq(x, 1, n - 1), k, t % k)
         IN  [q |-> rest.q \o <<t \div k>>, r |-> rest.r]

BDivSmall(x, k) ==
    LET d == BDivSmallR(x, k, 0) IN [q |-> BNorm(d.q), r |-> d.r]

\* floor(x / 2^s)
BShr(x, s) ==
    LET w == s \div LimbBits
    IN  IF w >= Len(x) THEN <<>>
        ELSE BDivSmall(SubSeq(x, w + 1, Len(x)), 2^(s % LimbBits)).q

\* whether any of the s low bits of x is set
BLowNonZero(x, s) == \E i \in 0..(s - 1) : BBit(x, i) = 1

-----------------------------------------------------------------------------
(* float: IEEE-754 binary64, round-to-nearest-even *)

MantBits == 53

NaN == [cls |-> "nan"]
Inf(neg) == [cls |-> "inf", neg |-> neg]
Fin(neg, m, e) == [cls |-> "fin", neg |-> neg, m |-> m, e |-> e]
Zero(neg) == Fin(neg, <<>>, 0)

\* least exponent of the format (subnormals are m * 2^EMin with m < 2^52) and
\* the exponent of the largest finite values
EMin == -1074
EMax == 971

\* q = floor(n / 2^s) rounded to the nearest natural, ties to even, where the
\* value rounded is n / 2^s plus, when sticky holds, a positive amount too
\* small to reach the next multiple of 2^-s
BRoundShift(q, n, s, sticky) ==
    IF BBit(n, s - 1) = 1 /\ (sticky \/ BLowNonZero(n, s - 1) \/ BBit(q, 0) = 1)
    THEN BAdd(q, <<1>>)
    ELSE q

\* the float m * 2^e, for m < 2^53: an infinity beyond the largest exponent
FFinite(neg, m, e) ==
    IF m = <<>> THEN Zero(neg)
    ELSE IF e > EMax THEN Inf(neg)
    ELSE Fin(neg, m, e)

\* m * 2^e for m <= 2^53, which a rounding up may have carried to 2^53
FCarry(neg, m, e) ==
    IF BBitLen(m) > MantBits THEN FFinite(neg, BShr(m, 1), e + 1)
    ELSE FFinite(neg, m, e)

\* n * 2^e rounded to a multiple of 2^E
FRoundTo(neg, n, e, sticky, E) ==
    IF E <= e THEN FFinite(neg, BShl(n, e - E), E)
    ELSE FCarry(neg, BRoundShift(BShr(n, E - e), n, E - e, sticky), E)

\* the exponent of the float nearest to a value of len bits above 2^e
FExponent(e, len) ==
    IF e + len - MantBits < EMin THEN EMin ELSE e + len - MantBits

\* The binary64 nearest to (n + t) * 2^e, where n is a natural and t, a
\* fraction in [0, 1), is nonzero exactly when sticky holds. Callers pass
\* sticky only with n of more than MantBits + 1 bits.
FRound(neg, n, e, sticky) ==
    IF n = <<>> THEN Zero(neg)
    ELSE FRoundTo(neg, n, e, sticky, FExponent(e, BBitLen(n)))

FIsZero(x) == x.cls = "fin" /\ x.m = <<>>

\* x * y
FMul(x, y) ==
    IF x.cls = "nan" \/ y.cls = "nan" THEN NaN
    ELSE IF x.cls = "inf" \/ y.cls = "inf"
         THEN IF FIsZero(x) \/ FIsZero(y) THEN NaN ELSE Inf(x.neg # y.neg)
    ELSE FRound(x.neg # y.neg, BMul(x.m, y.m), x.e + y.e, FALSE)

\* magnitude comparison of two finite values: -1, 0, 1
FCmpMag(x, y) ==
    IF x.m = <<>> /\ y.m = <<>> THEN 0
    ELSE IF x.m = <<>> THEN -1
    ELSE IF y.m = <<>> THEN 1
    ELSE IF x.e < y.e THEN -1
    ELSE IF x.e > y.e THEN 1
    ELSE BCmp(x.m, y.m)

\* x < y; every comparison with a NaN is false, and -0.0 equals 0.0
FLess(x, y) ==
    IF x.cls = "nan" \/ y.cls = "nan" THEN FALSE
    ELSE IF x.cls = "inf" THEN x.neg /\ ~(y.cls = "inf" /\ y.neg)
    ELSE IF y.cls = "inf" THEN ~y.neg
    ELSE IF FIsZero(x) /\ FIsZero(y) THEN FALSE
    ELSE IF x.neg /\ ~y.neg THEN TRUE
    ELSE IF ~x.neg /\ y.neg THEN FALSE
    ELSE IF x.neg THEN FCmpMag(x, y) = 1
    ELSE FCmpMag(x, y) = -1

\* truth value of None, a str or a float: a str is true unless empty, a
\* float unless 0.0 or -0.0
Truthy(v) ==
    CASE v.cls = "None" -> FALSE
      [] v.cls = "str"  -> v.s # <<>>
      [] OTHER          -> ~FIsZero(v)

\* the builtins min(a, b) and max(a, b): the first argument unless the second
\* compares strictly less (greater)
PyMin(a, b) == IF FLess(b, a) THEN b ELSE a
PyMax(a, b) == IF FLess(a, b) THEN b ELSE a

-----------------------------------------------------------------------------
(* str -> float, float -> int, round *)

Digits == <<"0", "1", "2", "3", "4", "5", "6", "7", "8", "9">>
IsDigit(c) == \E i \in 1..10 : Digits[i] = c
DigitVal(c) == (CHOOSE i \in 1..10 : Digits[i] = c) - 1

\* str.lower() on the letters the float grammar reads
Lower(c) ==
    CASE c = "I" -> "i" [] c = "N" -> "n" [] c = "F" -> "f" [] c = "T" -> "t"
      [] c = "Y" -> "y" [] c = "A" -> "a" [] c = "E" -> "e" [] OTHER -> c

IsSpace(c) == c = " "

RECURSIVE LStrip(_)
LStrip(s) == IF s # <<>> /\ IsSpace(Head(s)) THEN LStrip(Tail(s)) ELSE s

RECURSIVE RStrip(_)
RStrip(s) ==
    IF s # <<>> /\ IsSpace(s[Len(s)]) THEN RStrip(SubSeq(s, 1, Len(s) - 1)) ELSE s

Strip(s) == RStrip(LStrip(s))

RECURSIVE DigitPrefixLen(_)
DigitPrefixLen(s) ==
    IF s # <<>> /\ IsDigit(Head(s)) THEN 1 + DigitPrefixLen(Tail(s)) ELSE 0

Drop(s, n) == SubSeq(s, n + 1, Len(s))

\* the natural written by a string of decimal digits
RECURSIVE BFromDigits(_)
BFromDigits(ds) ==
    IF ds = <<>> THEN <<>>
    ELSE BNorm(BMulSmallC(BFromDigits(SubSeq(ds, 1, Len(ds) - 1)), 10,
                          DigitVal(ds[Len(ds)])))

RECURSIVE SmallFromDigits(_)
SmallFromDigits(ds) ==
    IF ds = <<>> THEN 0
    ELSE 10 * SmallFromDigits(SubSeq(ds, 1, Len(ds) - 1)) + DigitVal(ds[Len(ds)])

RECURSIVE BMulPow10(_, _)
BMulPow10(x, k) == IF k = 0 THEN x ELSE BMulPow10(BMulSmall(x, 10), k - 1)

\* floor(x / 10^k), and whether the division left a remainder
RECURSIVE BDivPow10(_, _, _)
BDivPow10(x, k, sticky) ==
    IF k = 0 THEN [q |-> x, sticky |-> sticky]
    ELSE LET d == BDivSmall(x, 10)
         IN  BDivPow10(d.q, k - 1, sticky \/ d.r # 0)

\* the float nearest to (d.q + t) * 2^-s, t nonzero when d.sticky holds
FRoundQuotient(neg, d, s) == FRound(neg, d.q, -s, d.sticky)

\* the binary64 nearest to D * 10^p (correctly rounded, as strtod): for a
\* negative p, D * 2^s is divided by 10^-p with s large enough to leave a
\* quotient of more than MantBits + 1 bits
DecToFloat(neg, D, p) ==
    IF D = <<>> THEN Zero(neg)
    ELSE IF p >= 0 THEN FRound(neg, BMulPow10(D, p), 0, FALSE)
    ELSE FRoundQuotient(neg,
                        BDivPow10(BShl(D, MantBits + 2 + 4 * (-p)), -p, FALSE),
                        MantBits + 2 + 4 * (-p))

ValueError == "ValueError"
OverflowError == "OverflowError"
SystemExit == "SystemExit"

\* the value [+-]digits of an exponent, given the count n of leading digits
\* of r: all of r must be digits, and at least one
ExponentValue(neg, r, n) ==
    IF n >= 1 /\ n = Len(r)
    THEN [ok |-> TRUE, exp |-> IF neg THEN -SmallFromDigits(r) ELSE SmallFromDigits(r)]
    ELSE [ok |-> FALSE, exp |-> 0]

SignedExponent(r) ==
    IF r # <<>> /\ Head(r) \in {"+", "-"}
    THEN ExponentValue(Head(r) = "-", Tail(r), DigitPrefixLen(Tail(r)))
    ELSE ExponentValue(FALSE, r, DigitPrefixLen(r))

\* the exponent part of a float literal: <<>> or e[+-]digits
ParseExponent(r) ==
    IF r = <<>> THEN [ok |-> TRUE, exp |-> 0]
    ELSE IF Lower(Head(r)) # "e" THEN [ok |-> FALSE, exp |-> 0]
    ELSE SignedExponent(Tail(r))

\* digits ds, nf of them after the point, and the parsed exponent
ParseScaled(neg, ds, nf, ex) ==
    IF ex.ok THEN DecToFloat(neg, BFromDigits(ds), ex.exp - nf)
    ELSE Raise(ValueError)

\* integer digits ip, fraction digits fp, and the rest r of the literal
ParseTail(neg, ip, fp, r) ==
    IF ip = <<>> /\ fp = <<>> THEN Raise(ValueError)
    ELSE ParseScaled(neg, ip \o fp, Len(fp), ParseExponent(r))

\* r follows the point and starts with nf digits
ParseFraction(neg, ip, r, nf) ==
    ParseTail(neg, ip, SubSeq(r, 1, nf), Drop(r, nf))

\* r follows the integer digits
ParsePoint(neg, ip, r) ==
    IF r # <<>> /\ Head(r) = "."
    THEN ParseFraction(neg, ip, Tail(r), DigitPrefixLen(Tail(r)))
    ELSE ParseTail(neg, ip, <<>>, r)

\* u starts with ni digits
ParseNumber(neg, u, ni) == ParsePoint(neg, SubSeq(u, 1, ni), Drop(u, ni))

LowerStr(u) == [i \in 1..Len(u) |-> Lower(u[i])]

\* the literal after its sign, w the same in lower case
ParseUnsigned(neg, u, w) ==
    IF w = <<"i", "n", "f">> \/ w = <<"i", "n", "f", "i", "n", "i", "t", "y">>
    THEN Inf(neg)
    ELSE IF w = <<"n", "a", "n">> THEN NaN
    ELSE ParseNumber(neg, u, DigitPrefixLen(u))

ParseSigned(t) ==
    IF t # <<>> /\ Head(t) \in {"+", "-"}
    THEN ParseUnsigned(Head(t) = "-", Tail(t), LowerStr(Tail(t)))
    ELSE ParseUnsigned(FALSE, t, LowerStr(t))

\* float(s) for the characters s of a str: the float, or ValueError raised.
\* The grammar is that of float(): surrounding whitespace, a sign, then inf,
\* infinity or nan in any case, or decimal digits with an optional point and
\* an optional exponent. Underscores between digits are not modelled.
StrToFloat(s) == ParseSigned(Strip(s))

\* the magnitude of int(x)
BTrunc(m, e) == IF e >= 0 THEN BShl(m, e) ELSE BShr(m, -e)

SignedInt(neg, n) == PyInt(IF neg THEN -n ELSE n)

\* the natural nearest to m * 2^e, ties to even
BRoundHalfEven(m, e) ==
    IF e >= 0 THEN BShl(m, e)
    ELSE BRoundShift(BShr(m, -e), m, -e, FALSE)

\* a variant that rounds to the nearest integer
FloatToIntRounding(x) ==
    IF x.cls = "nan" THEN Raise(ValueError)
    ELSE IF x.cls = "inf" THEN Raise(OverflowError)
    ELSE SignedInt(x.neg, BToInt(BRoundHalfEven(x.m, x.e)))

\* int(x) for a float x: truncation toward zero, or the exception raised
FloatToInt(x) ==
    IF x.cls = "nan" THEN Raise(ValueError)
    ELSE IF x.cls = "inf" THEN Raise(OverflowError)
    ELSE SignedInt(x.neg, BToInt(BTrunc(x.m, x.e)))

\* a variant that cuts x to one decimal instead of rounding it
Round1Truncating(x) ==
    IF x.cls # "fin" THEN x
    ELSE DecToFloat(x.neg, BTrunc(BMulSmall(x.m, 10), x.e), -1)

\* round(x, 1) for a float x: the float nearest to the one-decimal number
\* nearest to x
Round1(x) ==
    IF x.cls # "fin" THEN x
    ELSE DecToFloat(x.neg, BRoundHalfEven(BMulSmall(x.m, 10), x.e), -1)

-----------------------------------------------------------------------------
(* main() *)

\* float literals of the source
F0    == StrToFloat(<<"0">>)
F0_45 == StrToFloat(<<"0", ".", "4", "5">>)
F0_6  == StrToFloat(<<"0", ".", "6">>)
F8_0  == StrToFloat(<<"8", ".", "0">>)
F10_0 == StrToFloat(<<"1", "0", ".", "0">>)
F25_0 == StrToFloat(<<"2", "5", ".", "0">>)
F35_0 == StrToFloat(<<"3", "5", ".", "0">>)
F12_4 == StrToFloat(<<"1", "2", ".", "4">>)
F18_6 == StrToFloat(<<"1", "8", ".", "6">>)
F0_42 == StrToFloat(<<"0", ".", "4", "2">>)

OptionNames == {"video", "duration", "width", "height", "assessment_id"}

\* a variant in which --video is not required
ParseArgsVideoOptional(cmdline) ==
    [cls           |-> "Namespace",
     video         |-> cmdline.video,
     duration      |-> cmdline.duration,
     width         |-> cmdline.width,
     height        |-> cmdline.height,
     assessment_id |-> cmdline.assessment_id]

\* parser.parse_args(): --video is the one required option; no option has a
\* type, so every supplied value is kept as the str given. The result is the
\* Namespace, or the SystemExit that parser.error() raises.
ParseArgs(cmdline) ==
    IF cmdline.video = None THEN Raise(SystemExit)
    ELSE [cls           |-> "Namespace",
          video         |-> cmdline.video,
          duration      |-> cmdline.duration,
          width         |-> cmdline.width,
          height        |-> cmdline.height,
          assessment_id |-> cmdline.assessment_id]

\* float(a) if a else None
ConvertDuration(a) ==
    IF Truthy(a) THEN StrToFloat(a.s) ELSE None

\* int(float(a)) if a else None
IntOfFloat(f) == IF Raised(f) THEN f ELSE FloatToInt(f)

\* a variant that defaults an absent option to 0
ConvertPixelsZeroDefault(a) ==
    IF Truthy(a) THEN IntOfFloat(StrToFloat(a.s)) ELSE PyInt(0)

ConvertPixels(a) ==
    IF Truthy(a) THEN IntOfFloat(StrToFloat(a.s)) ELSE None

\* a variant that drops "duration > 0"
ScoreFromDurationAnyNonzero(d) == Truthy(d)

\* duration and duration > 0
ScoreFromDuration(d) == Truthy(d) /\ FLess(F0, d)

\* a variant that drops the upper clamp
TugSecondsNoCeiling(d) ==
    IF ScoreFromDuration(d) THEN PyMax(F8_0, FMul(d, F0_45)) ELSE F12_4

TugSeconds(d) ==
    IF ScoreFromDuration(d) THEN PyMax(F8_0, PyMin(FMul(d, F0_45), F25_0)) ELSE F12_4

\* a variant that scales by the factor of tug_seconds
ChairSecondsTugFactor(d) ==
    IF ScoreFromDuration(d) THEN PyMax(F10_0, PyMin(FMul(d, F0_45), F35_0)) ELSE F18_6

ChairSeconds(d) ==
    IF ScoreFromDuration(d) THEN PyMax(F10_0, PyMin(FMul(d, F0_6), F35_0)) ELSE F18_6

Payload(a, d, w, h, tug, chair) ==
    [ model_version        |-> PyStr(<<"p", "o", "s", "e", "_", "s", "t", "u", "b", "_", "v", "0">>),
      tug_seconds          |-> Round1(tug),
      chair_stand_seconds  |-> Round1(chair),
      balance_side_by_side |-> PyBool(TRUE),
      balance_semi_tandem  |-> PyBool(TRUE),
      balance_tandem       |-> PyBool(FALSE),
      confidence           |-> F0_42,
      notes                |-> PyStr(<<"s", "t", "u", "b", ":", " ", "g", "e", "n", "e", "r", "a", "t", "e", "d", " ", "d", "e", "m", "o", " ", "s", "c", "o", "r", "e", "s">>),
      video_path           |-> a.video,
      duration_seconds     |-> d,
      width                |-> w,
      height               |-> h,
      assessment_id        |-> a.assessment_id ]

\* json.dumps of one value: None is written null, a bool true or false, a str
\* a string, an int or float a number token (repr is one-to-one on floats, so
\* the token is identified with the number it denotes; a NaN or an infinity is
\* written NaN or Infinity)
JsonValue(v) ==
    CASE v.cls = "None" -> [tok |-> "null"]
      [] v.cls = "bool" -> [tok |-> IF v.v THEN "true" ELSE "false"]
      [] v.cls = "str"  -> [tok |-> "string", s |-> v.s]
      [] OTHER          -> [tok |-> "number", v |-> v]

\* json.dumps(payload)
JsonDumps(p) == [k \in DOMAIN p |-> JsonValue(p[k])]

\* a variant in which the exception is swallowed
ExitStatusSwallowed(e) == 0

\* the exit status of the interpreter: 2 from parser.error(), 1 from an
\* uncaught exception
ExitStatus(e) == IF e = SystemExit THEN 2 ELSE 1

VARIABLES
    argv,           \* the command line: option name -> the str supplied, or None
    pc,             \* the statement main() is at
    args,           \* the Namespace
    duration, width, height,
    tug_seconds, chair_seconds,
    payload,
    stdout,         \* the lines written to standard output
    exc,            \* the exception that ended the run (a Raise), or None
    exit_code,      \* the exit status, or None while running
    history         \* the runs completed before this one

vars == <<argv, pc, args, duration, width, height, tug_seconds, chair_seconds,
          payload, stdout, exc, exit_code, history>>

\* the statement raises r.exc: nothing catches it, the interpreter exits
Die(r) ==
    /\ exc' = r
    /\ exit_code' = PyInt(ExitStatus(r.exc))
    /\ pc' = "exit"

Start(cmdline) ==
    /\ argv = cmdline
    /\ pc = "parse_args"
    /\ args = Unbound
    /\ duration = Unbound
    /\ width = Unbound
    /\ height = Unbound
    /\ tug_seconds = Unbound
    /\ chair_seconds = Unbound
    /\ payload = Unbound
    /\ stdout = <<>>
    /\ exc = None
    /\ exit_code = None

\* args is bound to r, or r is raised
bind_args(r) ==
    IF Raised(r)
    THEN Die(r) /\ UNCHANGED args
    ELSE args' = r /\ pc' = "duration" /\ UNCHANGED <<exc, exit_code>>

\* args = parser.parse_args()
parse_args ==
    /\ pc = "parse_args"
    /\ bind_args(ParseArgs(argv))
    /\ UNCHANGED <<argv, duration, width, height, tug_seconds, chair_seconds,
                   payload, stdout, history>>

\* duration is bound to r, or r is raised
bind_duration(r) ==
    IF Raised(r)
    THEN Die(r) /\ UNCHANGED duration
    ELSE duration' = r /\ pc' = "width" /\ UNCHANGED <<exc, exit_code>>

\* duration = float(args.duration) if args.duration else None
assign_duration ==
    /\ pc = "duration"
    /\ bind_duration(ConvertDuration(args.duration))
    /\ UNCHANGED <<argv, args, width, height, tug_seconds, chair_seconds,
                   payload, stdout, history>>

\* width is bound to r, or r is raised
bind_width(r) ==
    IF Raised(r)
    THEN Die(r) /\ UNCHANGED width
    ELSE width' = r /\ pc' = "height" /\ UNCHANGED <<exc, exit_code>>

\* width = int(float(args.width)) if args.width else None
assign_width ==
    /\ pc = "width"
    /\ bind_width(ConvertPixels(args.width))
    /\ UNCHANGED <<argv, args, duration, height, tug_seconds, chair_seconds,
                   payload, stdout, history>>

\* height is bound to r, or r is raised
bind_height(r) ==
    IF Raised(r)
    THEN Die(r) /\ UNCHANGED height
    ELSE height' = r /\ pc' = "score" /\ UNCHANGED <<exc, exit_code>>

\* height = int(float(args.height)) if args.height else None
assign_height ==
    /\ pc = "height"
    /\ bind_height(ConvertPixels(args.height))
    /\ UNCHANGED <<argv, args, duration, width, tug_seconds, chair_seconds,
                   payload, stdout, history>>

\* tug_seconds = 12.4; chair_seconds = 18.6; if duration and duration > 0: ...
score ==
    /\ pc = "score"
    /\ tug_seconds' = TugSeconds(duration)
    /\ chair_seconds' = ChairSeconds(duration)
    /\ pc' = "payload"
    /\ UNCHANGED <<argv, args, duration, width, height, payload, stdout, exc,
                   exit_code, history>>

\* payload = {...}
build_payload ==
    /\ pc = "payload"
    /\ payload' = Payload(args, duration, width, height, tug_seconds, chair_seconds)
    /\ pc' = "print"
    /\ UNCHANGED <<argv, args, duration, width, height, tug_seconds,
                   chair_seconds, stdout, exc, exit_code, history>>

\* print(json.dumps(payload)); main() returns and the interpreter exits
print ==
    /\ pc = "print"
    /\ stdout' = Append(stdout, JsonDumps(payload))
    /\ exit_code' = PyInt(0)
    /\ pc' = "exit"
    /\ UNCHANGED <<argv, args, duration, width, height, tug_seconds,
                   chair_seconds, payload, exc, history>>

Step ==
    \/ parse_args
    \/ assign_duration
    \/ assign_width
    \/ assign_height
    \/ score
    \/ build_payload
    \/ print

-----------------------------------------------------------------------------
(* Command lines *)

\* the decimal numeral of a natural
RECURSIVE NatStr(_)
NatStr(n) ==
    IF n < 10 THEN <<Digits[n + 1]>> ELSE NatStr(n \div 10) \o <<Digits[(n % 10) + 1]>>

\* the numeral with one decimal of n tenths
TenthsStr(n) == NatStr(n \div 10) \o <<".">> \o <<Digits[(n % 10) + 1]>>

\* the largest --duration, in tenths of a second, of the scoring runs
MaxDurationTenths == 600
\* the largest --width and --height, in tenths of a pixel, of the pixel runs
MaxPixelTenths == 25
\* the largest --duration, in seconds, of the paired runs
MaxPairSeconds == 60

VideoArgs == { None,
      PyStr(<<"a", ".", "m", "p", "4">>),
      PyStr(<<>>) }
IdArgs == { None,
      PyStr(<<"A", "1">>),
      PyStr(<<>>) }

\* values of a numeric option that are no decimal numeral: the empty string,
\* text float() rejects, and the NaN and infinities it accepts
OddArgs == { PyStr(<<>>),
      PyStr(<<"a", "b", "c">>),
      PyStr(<<"n", "a", "n">>),
      PyStr(<<"i", "n", "f">>),
      PyStr(<<"-", "i", "n", "f">>),
      PyStr(<<"1", "e">>) }

DurationArgs ==
    OddArgs \cup { None,
        PyStr(<<"0">>),
        PyStr(<<"-", "0", ".", "0">>),
        PyStr(<<"-", "5">>),
        PyStr(<<"2", "0">>),
        PyStr(<<"1", "0", "0">>),
        PyStr(<<"1", "9">>),
        PyStr(<<"2", "1">>),
        PyStr(<<"1", "e", "2">>),
        PyStr(<<" ", "3", "0", " ">>) }

WidthArgs ==
    { None,
        PyStr(<<>>),
        PyStr(<<"a", "b", "c">>),
        PyStr(<<"n", "a", "n">>),
        PyStr(<<"i", "n", "f">>),
        PyStr(<<"0">>),
        PyStr(<<"0", ".", "9">>),
        PyStr(<<"6", "4", "0", ".", "7">>),
        PyStr(<<"-", "3", ".", "7">>) }

HeightArgs ==
    { None,
        PyStr(<<>>),
        PyStr(<<"4", "x">>),
        PyStr(<<"0", ".", "0">>),
        PyStr(<<"4", "8", "0", ".", "2">>),
        PyStr(<<"1", "e", "3">>) }

Cmdline(v, d, w, h, i) ==
    [video |-> v, duration |-> d, width |-> w, height |-> h, assessment_id |-> i]

Cmdlines ==
    {Cmdline(v, d, w, h, i) :
        v \in VideoArgs, d \in DurationArgs, w \in WidthArgs, h \in HeightArgs,
        i \in IdArgs}

\* runs that differ in --duration only, every tenth of a second up to the bound
ScoreDurationArgs ==
    DurationArgs \cup {PyStr(TenthsStr(n)) : n \in 0..MaxDurationTenths}
                 \cup {PyStr(<<"-">> \o TenthsStr(n)) : n \in 0..20}

ScoreCmdlines ==
    {Cmdline(v, d, None, None, None) :
        v \in {None, PyStr(<<"a", ".", "m", "p", "4">>)}, d \in ScoreDurationArgs}

\* runs that differ in --width and --height only
PixelArgs ==
    WidthArgs \cup HeightArgs
              \cup {PyStr(TenthsStr(n)) : n \in 0..MaxPixelTenths}
              \cup {PyStr(<<"-">> \o TenthsStr(n)) : n \in 0..MaxPixelTenths}

PixelCmdlines ==
    {Cmdline(v, None, w, h, None) :
        v \in {None, PyStr(<<"a", ".", "m", "p", "4">>)}, w \in PixelArgs, h \in PixelArgs}

\* runs that succeed and differ in --duration only, every second up to the bound
PairDurationArgs ==
    { None,
        PyStr(<<"-", "5">>),
        PyStr(<<"0", ".", "5">>),
        PyStr(<<"1", "7", ".", "7">>),
        PyStr(<<"1", "7", ".", "8">>),
        PyStr(<<"5", "5", ".", "5">>),
        PyStr(<<"5", "5", ".", "6">>),
        PyStr(<<"1", "6", ".", "6">>),
        PyStr(<<"1", "6", ".", "7">>),
        PyStr(<<"5", "8", ".", "3">>),
        PyStr(<<"5", "8", ".", "4">>),
        PyStr(<<"1", "0", "0">>),
        PyStr(<<"i", "n", "f">>) }
      \cup {PyStr(NatStr(n)) : n \in 1..MaxPairSeconds}

PairCmdlines ==
    {Cmdline(PyStr(<<"a", ".", "m", "p", "4">>), d, None, None, None) : d \in PairDurationArgs}

-----------------------------------------------------------------------------
(* Specifications *)

Init == \E c \in Cmdlines : Start(c) /\ history = <<>>

Next == Step

Spec == Init /\ [][Next]_vars

InitScore == \E c \in ScoreCmdlines : Start(c) /\ history = <<>>

SpecScore == InitScore /\ [][Next]_vars

InitPixels == \E c \in PixelCmdlines : Start(c) /\ history = <<>>

SpecPixels == InitPixels /\ [][Next]_vars

\* The caller runs the program again: the finished run is recorded and a new
\* process starts on another command line. One earlier run is kept.
run_again ==
    /\ pc = "exit"
    /\ history = <<>>
    /\ history' = <<[argv |-> argv, stdout |-> stdout, exit_code |-> exit_code]>>
    /\ \E c \in PairCmdlines :
          /\ argv' = c
          /\ pc' = "parse_args"
          /\ args' = Unbound
          /\ duration' = Unbound
          /\ width' = Unbound
          /\ height' = Unbound
          /\ tug_seconds' = Unbound
          /\ chair_seconds' = Unbound
          /\ payload' = Unbound
          /\ stdout' = <<>>
          /\ exc' = None
          /\ exit_code' = None

InitPair == \E c \in PairCmdlines : Start(c) /\ history = <<>>

NextPair ==
    \/ Step
    \/ run_again

SpecPair == InitPair /\ [][NextPair]_vars

\* successful runs from which one option is then taken away
FrameCmdlines ==
    {Cmdline(PyStr(<<"a", ".", "m", "p", "4">>), d, w, h, i) :
        d \in { None,
               PyStr(<<>>),
               PyStr(<<"0">>),
               PyStr(<<"-", "5">>),
               PyStr(<<"2", "0">>),
               PyStr(<<"1", "0", "0">>) },
        w \in { None,
               PyStr(<<>>),
               PyStr(<<"0">>),
               PyStr(<<"6", "4", "0", ".", "7">>) },
        h \in { None,
               PyStr(<<"4", "8", "0", ".", "2">>),
               PyStr(<<"a", "b", "c">>) },
        i \in IdArgs}

OptionalNames == {"duration", "width", "height", "assessment_id"}

\* The caller runs the program again on the same command line less the
\* option o. One earlier run is kept.
run_without ==
    /\ pc = "exit"
    /\ history = <<>>
    /\ history' = <<[argv |-> argv, stdout |-> stdout, exit_code |-> exit_code]>>
    /\ \E o \in OptionalNames :
          /\ argv[o] # None
          /\ argv' = [argv EXCEPT ![o] = None]
    /\ pc' = "parse_args"
    /\ args' = Unbound
    /\ duration' = Unbound
    /\ width' = Unbound
    /\ height' = Unbound
    /\ tug_seconds' = Unbound
    /\ chair_seconds' = Unbound
    /\ payload' = Unbound
    /\ stdout' = <<>>
    /\ exc' = None
    /\ exit_code' = None

InitFrame == \E c \in FrameCmdlines : Start(c) /\ history = <<>>

NextFrame ==
    \/ Step
    \/ run_without

SpecFrame == InitFrame /\ [][NextFrame]_vars

-----------------------------------------------------------------------------
(* Properties *)

Exited == pc = "exit"
Succeeded == pc = "exit" /\ exit_code = PyInt(0)
\* the JSON object written by this run, and by the run before it
Line == stdout[1]
PrevLine == history[1].stdout[1]

JNull == [tok |-> "null"]
JNumber(v) == [tok |-> "number", v |-> v]
JString(chars) == [tok |-> "string", s |-> chars]

\* the error conditions: parser.error() for a missing required option, and
\* the exception float() or int() raises on a value it cannot convert
MissingArgument == exc = Raise(SystemExit)
InvalidArgument == exc \in {Raise(ValueError), Raise(OverflowError)}

Positive(d) == IsFloat(d) /\ FLess(F0, d)
FLeq(x, y) == x.cls # "nan" /\ y.cls # "nan" /\ ~FLess(y, x)

BLeq(a, b) == BCmp(a, b) <= 0
BMin(a, b) == IF BLeq(a, b) THEN a ELSE b
BMax(a, b) == IF BLeq(a, b) THEN b ELSE a

\* the least s with x * 2^s a natural, for a finite float x
Scale(x) == IF x.cls = "fin" /\ x.e < 0 THEN -x.e ELSE 0

\* the number of tenths nearest to a finite float x >= 0
TenthsOf(x) == BToInt(BRoundHalfEven(BMulSmall(x.m, 10), x.e))

\* x is the float written with one decimal: the float nearest to k / 10
IsOneDecimal(x) ==
    /\ x.cls = "fin"
    /\ ~x.neg
    /\ x = DecToFloat(FALSE, BFromInt(TenthsOf(x)), -1)

\* In exact arithmetic: k tenths is a one-decimal number nearest to
\* clamp(d * c, lo, hi), that is |10 * clamp(d * c, lo, hi) - k| <= 1/2, for a
\* positive float d, the factor c = c20 / 20, and lo and hi given in tenths.
\* Both sides are doubled and scaled by 2^Scale(d) to stay in the naturals.
NearestTenthOfClamp(d, c20, lo, hi, k) ==
    LET s    == Scale(d)
        unit == BShl(<<1>>, s)
        LO   == BShl(BFromInt(2 * lo), s)
        HI   == BShl(BFromInt(2 * hi), s)
        X    == IF d.cls = "inf" THEN HI ELSE BShl(BMulSmall(d.m, c20), d.e + s)
        W    == BMax(LO, BMin(X, HI))
        K    == BShl(BFromInt(2 * k), s)
    IN  BLeq(W, BAdd(K, unit)) /\ BLeq(K, BAdd(W, unit))

\* C1: whenever --duration parses to a number strictly greater than 0, the
\* emitted payload has 8.0 <= tug_seconds <= 25.0 and
\* 10.0 <= chair_stand_seconds <= 35.0.
C1_ScoresWithinBounds ==
    Succeeded /\ Positive(duration) =>
        /\ Line.tug_seconds.tok = "number"
        /\ FLeq(F8_0, Line.tug_seconds.v)
        /\ FLeq(Line.tug_seconds.v, F25_0)
        /\ Line.chair_stand_seconds.tok = "number"
        /\ FLeq(F10_0, Line.chair_stand_seconds.v)
        /\ FLeq(Line.chair_stand_seconds.v, F35_0)

\* a run whose duration puts 0.45 * duration above the upper clamp
C1_Witness ==
    /\ Succeeded
    /\ Positive(duration)
    /\ FLess(F25_0, FMul(duration, F0_45))
    /\ Line.tug_seconds = JNumber(F25_0)

\* C2: when --duration is absent, zero or negative, the emitted payload has
\* tug_seconds = 12.4 and chair_stand_seconds = 18.6; "--video a.mp4" alone
\* gives that pair with duration_seconds null.
C2_DefaultScores ==
    /\ Succeeded /\ (argv.duration = None \/ (IsFloat(duration) /\ FLeq(duration, F0))) =>
          /\ Line.tug_seconds = JNumber(F12_4)
          /\ Line.chair_stand_seconds = JNumber(F18_6)
    /\ Succeeded /\ argv = Cmdline(PyStr(<<"a", ".", "m", "p", "4">>), None, None, None, None) =>
          /\ Line.tug_seconds = JNumber(F12_4)
          /\ Line.chair_stand_seconds = JNumber(F18_6)
          /\ Line.duration_seconds = JNull

\* a run given a negative duration
C2_Witness ==
    /\ Succeeded
    /\ IsFloat(duration)
    /\ FLess(duration, F0)
    /\ Line.tug_seconds = JNumber(F12_4)

\* C3: for a duration strictly greater than 0, tug_seconds is
\* clamp(duration * 0.45, 8.0, 25.0) rounded to one decimal and
\* chair_stand_seconds is clamp(duration * 0.6, 10.0, 35.0) rounded to one
\* decimal (each a one-decimal number at most 0.05 from the clamped product);
\* duration 20 gives (9.0, 12.0) and duration 100 gives (25.0, 35.0).
C3_ClampedAndRounded ==
    /\ Succeeded /\ Positive(duration) =>
          /\ Line.tug_seconds.tok = "number"
          /\ IsOneDecimal(Line.tug_seconds.v)
          /\ NearestTenthOfClamp(duration, 9, 80, 250, TenthsOf(Line.tug_seconds.v))
          /\ Line.chair_stand_seconds.tok = "number"
          /\ IsOneDecimal(Line.chair_stand_seconds.v)
          /\ NearestTenthOfClamp(duration, 12, 100, 350,
                                 TenthsOf(Line.chair_stand_seconds.v))
    /\ Succeeded /\ argv.duration = PyStr(<<"2", "0">>) =>
          /\ Line.tug_seconds = JNumber(StrToFloat(<<"9", ".", "0">>))
          /\ Line.chair_stand_seconds = JNumber(StrToFloat(<<"1", "2", ".", "0">>))
    /\ Succeeded /\ argv.duration = PyStr(<<"1", "0", "0">>) =>
          /\ Line.tug_seconds = JNumber(F25_0)
          /\ Line.chair_stand_seconds = JNumber(F35_0)

\* a run in which the rounding changes a score that lies inside its clamp
C3_Witness ==
    /\ Succeeded
    /\ Positive(duration)
    /\ FLess(F8_0, tug_seconds)
    /\ FLess(tug_seconds, F25_0)
    /\ Line.tug_seconds # JNumber(tug_seconds)

\* C4: without --video the process fails with MissingArgument and a nonzero
\* exit before any computation and without printing, whatever the other
\* arguments are, unparseable ones included.
C4_MissingVideo ==
    argv.video = None =>
        /\ pc \in {"parse_args", "exit"}
        /\ stdout = <<>>
        /\ args = Unbound
        /\ duration = Unbound
        /\ width = Unbound
        /\ height = Unbound
        /\ tug_seconds = Unbound
        /\ chair_seconds = Unbound
        /\ payload = Unbound
        /\ Exited => MissingArgument /\ exit_code \in {PyInt(1), PyInt(2)}

\* a run without --video whose --duration and --width are unparseable
C4_Witness ==
    /\ Exited
    /\ argv.video = None
    /\ argv.duration = PyStr(<<"a", "b", "c">>)
    /\ argv.width = PyStr(<<"a", "b", "c">>)
    /\ MissingArgument

NumericNames == {"duration", "width", "height"}

\* C5: whenever --duration, --width or --height is supplied with a value that
\* float() cannot parse, the empty string included, the process ends with
\* InvalidArgument, a nonzero exit and no output. (Stated for runs given
\* --video: without it C4's MissingArgument is the error reported.)
C5_UnparseableIsInvalidArgument ==
    /\ Exited
    /\ argv.video # None
    /\ \E o \in NumericNames : argv[o] # None /\ Raised(StrToFloat(argv[o].s))
    => /\ InvalidArgument
       /\ exit_code \in {PyInt(1), PyInt(2)}
       /\ stdout = <<>>

\* the statements of main() in program order, and the place of one in it
Statements ==
    <<"parse_args", "duration", "width", "height", "score", "payload", "print", "exit">>
Position(l) == CHOOSE i \in 1..Len(Statements) : Statements[i] = l

\* an ended run has exit code 0 and one line written, or a nonzero exit code
\* and nothing written; a run that has not ended stands before a statement of
\* main() and has written nothing; a line is written only after all three
\* conversions have succeeded
OutcomeSoFar ==
    /\ Exited => \/ exit_code = PyInt(0) /\ Len(stdout) = 1
                 \/ exit_code \in {PyInt(1), PyInt(2)} /\ stdout = <<>>
    /\ ~Exited => /\ exit_code = None
                  /\ stdout = <<>>
                  /\ \E i \in 1..(Len(Statements) - 1) : Statements[i] = pc
    /\ stdout # <<>> =>
          /\ exc = None
          /\ duration # Unbound
          /\ width # Unbound
          /\ height # Unbound
          /\ ~Raised(ConvertDuration(argv.duration))
          /\ ~Raised(ConvertPixels(argv.width))
          /\ ~Raised(ConvertPixels(argv.height))

\* every step moves strictly forward in program order, so no run takes more
\* steps than main() has statements
Advances == Position(pc') > Position(pc)

\* C6: every run ends in exactly one of two outcomes: exit code 0 with exactly
\* one line on standard output, or a nonzero exit code with nothing written;
\* the line is written only after every argument has been parsed, so there is
\* never partial output; and no step goes back, so the run ends within the
\* statements of main().
C6_OneOutcome == []OutcomeSoFar /\ [][Advances]_vars

\* a run that fails on --height after --duration and --width were converted
C6_Witness ==
    /\ Exited
    /\ InvalidArgument
    /\ duration # Unbound
    /\ width # Unbound
    /\ height = Unbound
    /\ exit_code = PyInt(1)
    /\ stdout = <<>>

\* C7: every field supplied on input appears in the output with the value
\* supplied: video_path and assessment_id the strings, duration_seconds the
\* parsed number, width and height the parsed numbers truncated; no supplied
\* field is emitted as null.
C7_SuppliedFieldsEchoed ==
    Succeeded =>
        /\ Line.video_path = JString(argv.video.s)
        /\ argv.assessment_id # None =>
              Line.assessment_id = JString(argv.assessment_id.s)
        /\ argv.duration # None =>
              /\ Line.duration_seconds.tok = "number"
              /\ Line.duration_seconds.v = StrToFloat(argv.duration.s)
        /\ \A o \in {"width", "height"} :
              argv[o] # None =>
                 /\ Line[o].tok = "number"
                 /\ Line[o].v = IntOfFloat(StrToFloat(argv[o].s))

\* the output field that echoes an option
Field(o) == IF o = "duration" THEN "duration_seconds" ELSE o

\* the option the earlier run had and this run lacks
Removed == CHOOSE o \in OptionalNames : history[1].argv[o] # argv[o]

BothSucceeded ==
    Succeeded /\ history # <<>> /\ history[1].exit_code = PyInt(0)

AbsentIsNull ==
    Succeeded => \A o \in OptionalNames : argv[o] = None => Line[Field(o)] = JNull

\* C8 as stated: an absent option's field is null, and taking one option
\* away changes no other field of the output.
C8_AbsentIsNullAndNothingElseChanges ==
    /\ AbsentIsNull
    /\ BothSucceeded =>
          \A f \in DOMAIN Line : f # Field(Removed) => Line[f] = PrevLine[f]

\* C8 as amended: an absent option's field is null, and taking one option
\* away changes no other field, except that taking --duration away also
\* changes tug_seconds and chair_stand_seconds, which are computed from it.
C8_AbsentIsNullAndFrame ==
    /\ AbsentIsNull
    /\ BothSucceeded =>
          \A f \in DOMAIN Line :
             /\ f # Field(Removed)
             /\ ~(Removed = "duration" /\ f \in {"tug_seconds", "chair_stand_seconds"})
             => Line[f] = PrevLine[f]

\* a run without the --width the earlier run had
C8_Witness ==
    /\ BothSucceeded
    /\ Removed = "width"
    /\ PrevLine.width # JNull
    /\ Line.width = JNull
    /\ Line.height # JNull

\* in exact arithmetic: n is the float x with its fraction cut off
IsTruncation(x, n) ==
    /\ x.cls = "fin"
    /\ n < 0 => x.neg
    /\ n > 0 => ~x.neg
    /\ LET a == IF n < 0 THEN -n ELSE n
           s == Scale(x)
           X == BShl(x.m, x.e + s)
       IN  /\ BLeq(BShl(BFromInt(a), s), X)
           /\ BCmp(X, BShl(BFromInt(a + 1), s)) < 0

\* C9: a supplied --width or --height is parsed as a float and truncated
\* toward zero, never rounded: 640.7 gives 640, 480.2 gives 480, and 0 or 0.9
\* gives the integer 0, not null.
C9_PixelsTruncated ==
    /\ \A o \in {"width", "height"} :
          Succeeded /\ Truthy(argv[o]) =>
             /\ Line[o].tok = "number"
             /\ Line[o].v.cls = "int"
             /\ IsTruncation(StrToFloat(argv[o].s), Line[o].v.v)
    /\ Succeeded /\ argv.width = PyStr(<<"6", "4", "0", ".", "7">>) =>
          Line.width = JNumber(PyInt(640))
    /\ Succeeded /\ argv.height = PyStr(<<"4", "8", "0", ".", "2">>) =>
          Line.height = JNumber(PyInt(480))
    /\ Succeeded /\ argv.width = PyStr(<<"0">>) => Line.width = JNumber(PyInt(0))
    /\ Succeeded /\ argv.width = PyStr(<<"0", ".", "9">>) =>
          Line.width = JNumber(PyInt(0))

\* the run of scenario D
C9_Witness ==
    /\ Succeeded
    /\ argv.width = PyStr(<<"6", "4", "0", ".", "7">>)
    /\ argv.height = PyStr(<<"4", "8", "0", ".", "2">>)
    /\ Line.width = JNumber(PyInt(640))
    /\ Line.height = JNumber(PyInt(480))

EmittedDuration(line) == line.duration_seconds.v

BothPositive ==
    /\ BothSucceeded
    /\ PrevLine.duration_seconds.tok = "number"
    /\ Line.duration_seconds.tok = "number"
    /\ Positive(EmittedDuration(PrevLine))
    /\ Positive(EmittedDuration(Line))

\* C10: of two successful runs with durations 0 < d1 <= d2 the second emits
\* tug_seconds and chair_stand_seconds no smaller than the first, and every
\* emitted payload has tug_seconds < chair_stand_seconds.
C10_MonotoneAndOrdered ==
    /\ Succeeded => FLess(Line.tug_seconds.v, Line.chair_stand_seconds.v)
    /\ BothPositive /\ FLeq(EmittedDuration(PrevLine), EmittedDuration(Line)) =>
          /\ FLeq(PrevLine.tug_seconds.v, Line.tug_seconds.v)
          /\ FLeq(PrevLine.chair_stand_seconds.v, Line.chair_stand_seconds.v)

\* two runs, the second with the longer duration and the larger scores
C10_Witness ==
    /\ BothPositive
    /\ FLess(EmittedDuration(PrevLine), EmittedDuration(Line))
    /\ FLess(PrevLine.tug_seconds.v, Line.tug_seconds.v)
    /\ FLess(PrevLine.chair_stand_seconds.v, Line.chair_stand_seconds.v)

====
